---- MODULE Spec2Model ----
(***************************************************************************)
(* Model of src/server.js: the user preference state (likedProducts,       *)
(* dislikedProducts, preferences), the product catalog, and the handlers   *)
(* that read or write them; then the OTP records and accounts of the       *)
(* first variant's login and registration, and its carts, orders and       *)
(* payment verification.  server.js holds two server variants, one after   *)
(* the other; both are modelled, each handler from its own lines.          *)
(*                                                                         *)
(* A product's identifier is its position in the catalog (products are     *)
(* only ever appended, never deleted), so catalog order is identifier      *)
(* order, as Product.find() returns documents in insertion order.          *)
(***************************************************************************)
EXTENDS Integers, Sequences, FiniteSets, TLC

\* ------------------------------------------------------------- bounds
\* Largest catalog of the main specification.
MaxProducts == 2

\* The catalogs of the second specification, SpecCatalog, which starts from
\* a stored catalog: every catalog of up to MaxSortLen products over Scores
\* (where the sort meets unequal and NaN scores), and the catalogs of up to
\* MaxCatalog equal products (where the result limits cut).
MaxSortLen == 3
MaxCatalog == 11

\* Identifiers a User document can be stored under, and every identifier a
\* request can carry: "" is a missing (falsy) userId, "u2" is a well-formed
\* identifier that no stored user has.
StorableUserIds == {"u1"}
ReqUserIds == {"", "u1", "u2"}

\* category and sustainability_score values of added products.  No handler
\* validates the sign of sustainability_score (lines 655, 1307 only reject
\* undefined), so a negative and a zero score are storable.
Categories == {"A", "B"}
Scores == {-1, 0, 2}
\* The scores added in the main specification (the catalog grows there, and
\* with it the state space).
AddScores == {0, 2}

VARIABLES
    users,      \* stored User documents: id -> preference state
    products,   \* the Product collection, in insertion order
    response,   \* what the last request answered
    accounts,   \* credentials of the stored User documents: email -> record
    profiles,   \* the Profile collection: the users that have a profile
    otps,       \* the OTP collection, in insertion order
    now,        \* Date.now(), in milliseconds
    carts,      \* the Cart collection: userId -> items
    orders      \* the Order collection, in insertion order

vars == <<users, products, response, accounts, profiles, otps, now, carts, orders>>

\* The collections and the clock of login and registration, and the
\* collections of ordering: the handlers of one group leave the variables
\* of the other groups alone.
authVars == <<accounts, profiles, otps, now>>
orderVars == <<carts, orders>>

\* ------------------------------------------------------------- values
\* Product identifiers a request can carry: 0 is a missing (falsy)
\* productId, an identifier above Len(products) names no stored product.
ReqProductIds == 0..MaxProducts

ProductIds == 1..Len(products)

\* The (userId, productId) pairs of the like and dislike requests: every
\* well-formed userId with every productId, and one request without userId.
LikeRequests == ((ReqUserIds \ {""}) \X ReqProductIds) \cup {<<"", 1>>}

\* A JavaScript number as the scorers produce it: an integer or NaN.
Num(v) == [nan |-> FALSE, val |-> v]
NaN == [nan |-> TRUE, val |-> 0]

\* A User document as User.create stores it: the three arrays empty.
NewUser == [likedProducts |-> {}, dislikedProducts |-> {}, preferences |-> {}]

\* The answer of a handler.  userId is the identifier a recommendation
\* request was made for ("" in every other answer), status the HTTP status
\* (0 for a direct call of getRecommendedProducts), threw says the call
\* ended in an exception that the function itself does not catch, action is
\* the action a like or dislike answer reports, hasArray says the answer
\* carries a recommendation array, recommendations is that array (product
\* identifiers) and scores the score the request assigned to each catalog
\* product, in catalog order (empty when no score was computed).
Answer(op, userId, status) ==
    [op |-> op, userId |-> userId, status |-> status,
     threw |-> FALSE, action |-> "", hasArray |-> FALSE,
     recommendations |-> <<>>, scores |-> <<>>]

\* No account, profile, OTP record, cart or order stored.
NoAuth == accounts = << >> /\ profiles = {} /\ otps = << >> /\ now = 0
NoOrders == carts = << >> /\ orders = << >>

Init ==
    /\ users = << >>
    /\ products = << >>
    /\ response = Answer("none", "", 0)
    /\ NoAuth
    /\ NoOrders

\* ------------------------------------------------------------- handlers
\* POST /api/auth/register (second variant): User.create with the arrays
\* at their schema default.  valid = username, email and password present.
Register(userId, valid) ==
    /\ userId \notin DOMAIN users
    /\ IF ~valid
       THEN /\ response' = Answer("register", "", 400)
            /\ UNCHANGED users
       ELSE /\ users' = (userId :> NewUser) @@ users
            /\ response' = Answer("register", "", 201)
    /\ UNCHANGED products

\* POST /api/products/add: one product appended to the collection (the
\* first variant takes an array and inserts its elements the same way, one
\* after the other).  valid = every required field present.
AddProduct(category, score, valid) ==
    /\ IF ~valid
       THEN /\ response' = Answer("products/add", "", 400)
            /\ UNCHANGED products
       ELSE /\ products' = Append(products,
                   [category |-> category, sustainability_score |-> score])
            /\ response' = Answer("products/add", "", 201)
    /\ UNCHANGED users

\* No operator on a path of an update.
NoUpdate == [likedProducts |-> {}, dislikedProducts |-> {}, preferences |-> {}]

\* User.findByIdAndUpdate(userId, { $addToSet, $pull }): on the stored
\* document every path gains the values of $addToSet and loses the values
\* of $pull (the two name different paths); nothing at all happens when no
\* document has that id.
FindByIdAndUpdate(userId, addToSet, pull) ==
    IF userId \in DOMAIN users
    THEN [users EXCEPT ![userId] =
            [path \in DOMAIN NoUpdate |->
                (users[userId][path] \cup addToSet[path]) \ pull[path]]]
    ELSE users

\* POST /api/user/like: $addToSet likedProducts and preferences, $pull
\* dislikedProducts.
UserLike(userId, productId) ==
    /\ IF userId = "" \/ productId = 0
       THEN /\ response' = Answer("user/like", "", 400)
            /\ UNCHANGED users
       ELSE IF productId \notin ProductIds
       THEN /\ response' = Answer("user/like", "", 404)
            /\ UNCHANGED users
       ELSE /\ users' = FindByIdAndUpdate(userId,
                   [NoUpdate EXCEPT !.likedProducts = {productId},
                                    !.preferences = {products[productId].category}],
                   [NoUpdate EXCEPT !.dislikedProducts = {productId}])
            /\ response' = [Answer("user/like", "", 200)
                               EXCEPT !.action = "liked"]
    /\ UNCHANGED products

\* POST /api/user/dislike: $addToSet dislikedProducts, $pull likedProducts.
\* The product is not looked up.
UserDislike(userId, productId) ==
    /\ IF userId = "" \/ productId = 0
       THEN /\ response' = Answer("user/dislike", "", 400)
            /\ UNCHANGED users
       ELSE /\ users' = FindByIdAndUpdate(userId,
                   [NoUpdate EXCEPT !.dislikedProducts = {productId}],
                   [NoUpdate EXCEPT !.likedProducts = {productId}])
            /\ response' = [Answer("user/dislike", "", 200)
                               EXCEPT !.action = "disliked"]
    /\ UNCHANGED products

\* POST /api/product/like (first variant): toggles productId in
\* user.likedProducts and saves the user.  Only likedProducts is modified,
\* so user.save() writes no other path; product.likes is not a path of
\* ProductSchema, so product.save() stores nothing.
ProductLike(userId, productId) ==
    /\ IF userId = "" \/ productId = 0
       THEN /\ response' = Answer("product/like", "", 400)
            /\ UNCHANGED users
       ELSE IF userId \notin DOMAIN users \/ productId \notin ProductIds
       THEN /\ response' = Answer("product/like", "", 404)
            /\ UNCHANGED users
       ELSE LET isLiked == productId \in users[userId].likedProducts
            IN IF isLiked
               THEN /\ users' = [users EXCEPT ![userId].likedProducts =
                                     {id \in @ : id # productId}]
                    /\ response' = [Answer("product/like", "", 200)
                                       EXCEPT !.action = "unliked"]
               ELSE /\ users' = [users EXCEPT ![userId].likedProducts =
                                     @ \cup {productId}]
                    /\ response' = [Answer("product/like", "", 200)
                                       EXCEPT !.action = "liked"]
    /\ UNCHANGED products

\* ------------------------------------------------- JavaScript numbers
Abs(v) == IF v < 0 THEN -v ELSE v

Min(a, b) == IF a < b THEN a ELSE b

\* a * b and a - b on numbers: NaN as soon as one operand is NaN.
Mul(a, b) == IF a.nan \/ b.nan THEN NaN ELSE Num(a.val * b.val)
Sub(a, b) == IF a.nan \/ b.nan THEN NaN ELSE Num(a.val - b.val)

\* Math.max(...row) of a non-empty row: NaN if any entry is NaN, else the
\* greatest entry.
MathMax(row) ==
    IF \E x \in row : x.nan
    THEN NaN
    ELSE CHOOSE m \in row : \A x \in row : x.val <= m.val

\* slice with the cut left out: the whole array.
SliceWhole(array, n) == array

\* array.slice(0, n)
Slice(array, n) == SubSeq(array, 1, Min(n, Len(array)))

\* ------------------------------------------------- Array.prototype.sort
\* The comparator of both scorers, (a, b) => b.score - a.score, as sort reads
\* it: a NaN result counts as +0.
Compare(a, b) ==
    LET v == Sub(b.score, a.score)
    IN IF v.nan THEN 0 ELSE v.val

\* Whether the comparator is a consistent comparison function for the items
\* (the language's condition for the sort order to be defined).  The
\* comparator reads only the score of an item, so one item of each score
\* stands for all.
ConsistentCompare(items) ==
    LET reps == {[score |-> items[i].score] : i \in DOMAIN items}
    IN \A a, b, c \in reps :
           /\ Compare(a, a) = 0
           /\ (Compare(a, b) = 0 => Compare(b, a) = 0)
           /\ (Compare(a, b) = 0 /\ Compare(b, c) = 0 => Compare(a, c) = 0)
           /\ (Compare(a, b) < 0 /\ Compare(b, c) < 0 => Compare(a, c) < 0)
           /\ (Compare(a, b) > 0 /\ Compare(b, c) > 0 => Compare(a, c) > 0)

\* The stable sort under a consistent comparator: item i moves behind the
\* items that compare less than it and the earlier items that compare equal.
StableSort(items) ==
    LET n == Len(items)
        before(i) == {j \in 1..n :
                        \/ Compare(items[j], items[i]) < 0
                        \/ Compare(items[j], items[i]) = 0 /\ j < i}
    IN [k \in 1..n |-> items[CHOOSE i \in 1..n : Cardinality(before(i)) = k - 1]]

PermutationsOf(items) ==
    LET n == Len(items)
    IN {[i \in 1..n |-> items[f[i]]] :
          f \in {g \in [1..n -> 1..n] : \A i, j \in 1..n : i # j => g[i] # g[j]}}

\* The arrays items.sort(comparator) can leave: the stable sort when the
\* comparator is consistent, an implementation-defined order (any
\* permutation) when it is not.
ArraySort(items) ==
    IF ConsistentCompare(items)
    THEN {StableSort(items)}
    ELSE PermutationsOf(items)

\* ------------------------------------------------- recommendations
RouteLimit == 5
FunctionLimit == 10

\* user.populate("likedProducts"): the Product documents of the stored
\* identifiers; an identifier with no document is dropped.
Populate(likedProducts) == {id \in likedProducts : id \in ProductIds}

\* getFeatureVector(product) = [product.sustainability_score], normalize
\* (tensor) = tensor / norm(tensor, 2) row by row.  The row has one entry v,
\* its norm is |v|, and 0 / 0 is NaN.
Normalize(v) == IF Abs(v) = 0 THEN NaN ELSE Num(v \div Abs(v))

\* similarityScores[index]: the row of productNorm . likedNorm^T for one
\* product, and its Math.max.
SimilarityScore(id, likedProducts) ==
    MathMax({Mul(Normalize(products[id].sustainability_score),
                 Normalize(products[l].sustainability_score)) :
                 l \in likedProducts})

\* The handler as it would be if it wrote the preferred categories back,
\* recomputed from the liked products it has just populated.
RecommendationsStoringPreferences(userId) ==
    /\ userId \in DOMAIN users
    /\ users' = [users EXCEPT ![userId].preferences =
                     {products[l].category : l \in Populate(users[userId].likedProducts)}]
    /\ response' = [Answer("recommendations", userId, 200)
                       EXCEPT !.hasArray = TRUE]
    /\ UNCHANGED products

\* GET /api/recommendations/:userId (first variant).
Recommendations(userId) ==
    /\ IF userId \notin DOMAIN users
       THEN response' = Answer("recommendations", userId, 404)
       ELSE IF Len(products) = 0
       THEN response' = Answer("recommendations", userId, 404)
       ELSE LET likedProducts == Populate(users[userId].likedProducts)
            IN IF likedProducts = {}
               THEN response' = [Answer("recommendations", userId, 200)
                                    EXCEPT !.hasArray = TRUE]
               ELSE \E scored \in {[index \in ProductIds |->
                                     [product |-> index,
                                      score |-> SimilarityScore(index, likedProducts)]]} :
                       \E sorted \in ArraySort(scored) :
                         response' =
                           [Answer("recommendations", userId, 200) EXCEPT
                              !.hasArray = TRUE,
                              !.recommendations =
                                  [i \in DOMAIN Slice(sorted, RouteLimit) |->
                                      sorted[i].product],
                              !.scores = [i \in ProductIds |-> scored[i].score]]
    /\ UNCHANGED <<users, products>>

\* productCategoryMap[product._id] = product.category
productCategoryMap(id) == products[id].category

\* productScores after the two nested forEach loops: one key per catalog
\* product once a liked product has been visited, incremented once per
\* liked product when productCategoryMap[product._id] === product.category.
productScores(id, likedProducts) ==
    Cardinality({l \in likedProducts :
                    productCategoryMap(id) = products[id].category})

\* getRecommendedProducts(userId) (second variant).  A missing user makes
\* user.likedProducts throw.  user.likedProducts holds populated documents
\* when the filter asks whether it includes an identifier string; whether
\* such a document compares equal to its identifier is decided by the
\* document library, not by this source, so both answers are outcomes
\* (populatedMatch).  dislikedProducts holds identifiers.  The final
\* Product.find({ _id: { $in } }) returns the documents in catalog order.
GetRecommendedProducts(userId) ==
    /\ IF userId \notin DOMAIN users
       THEN response' = [Answer("getRecommendedProducts", userId, 0)
                            EXCEPT !.threw = TRUE]
       ELSE LET user == users[userId]
                likedProducts == Populate(user.likedProducts)
            IN \E keys \in {IF likedProducts = {} THEN << >>
                             ELSE [i \in ProductIds |->
                                     [product |-> i,
                                      score |-> Num(productScores(i, likedProducts))]]} :
               \E sorted \in ArraySort(keys), populatedMatch \in BOOLEAN :
                 LET kept(item) ==
                         /\ ~(populatedMatch /\ item.product \in likedProducts)
                         /\ item.product \notin user.dislikedProducts
                     recommendedProductIds ==
                         Slice(SelectSeq(sorted, kept), FunctionLimit)
                     ids == {recommendedProductIds[i].product :
                                i \in DOMAIN recommendedProductIds}
                     inIds(item) == item.product \in ids
                     found == SelectSeq(keys, inIds)
                 IN response' =
                      [Answer("getRecommendedProducts", userId, 0) EXCEPT
                         !.hasArray = TRUE,
                         !.recommendations =
                             [i \in DOMAIN found |-> found[i].product],
                         !.scores = [i \in DOMAIN keys |-> keys[i].score]]
    /\ UNCHANGED <<users, products>>

Next ==
    \/ \E u \in StorableUserIds, valid \in BOOLEAN :
          Register(u, valid) /\ UNCHANGED <<authVars, orderVars>>
    \/ \E c \in Categories, s \in AddScores, valid \in BOOLEAN :
          /\ Len(products) < MaxProducts /\ AddProduct(c, s, valid)
          /\ UNCHANGED <<authVars, orderVars>>
    \/ \E r \in LikeRequests :
          UserLike(r[1], r[2]) /\ UNCHANGED <<authVars, orderVars>>
    \/ \E r \in LikeRequests :
          UserDislike(r[1], r[2]) /\ UNCHANGED <<authVars, orderVars>>
    \/ \E r \in LikeRequests :
          ProductLike(r[1], r[2]) /\ UNCHANGED <<authVars, orderVars>>
    \/ \E u \in ReqUserIds \ {""} :
          Recommendations(u) /\ UNCHANGED <<authVars, orderVars>>
    \/ \E u \in ReqUserIds \ {""} :
          GetRecommendedProducts(u) /\ UNCHANGED <<authVars, orderVars>>

Spec == Init /\ [][Next]_vars

\* ------------------------------------------------- stored catalogs
VariedCatalogs ==
    UNION {[1..n -> [category : {"A"}, sustainability_score : Scores]] :
              n \in 0..MaxSortLen}

UniformCatalogs ==
    {[i \in 1..n |-> [category |-> "A", sustainability_score |-> 2]] :
        n \in 0..MaxCatalog}

\* A database holding one registered user and a stored catalog.
InitCatalog ==
    /\ users = ("u1" :> NewUser)
    /\ products \in VariedCatalogs \cup UniformCatalogs
    /\ response = Answer("none", "", 0)
    /\ NoAuth
    /\ NoOrders

NextCatalog ==
    \/ \E p \in 1..MaxSortLen :
          UserLike("u1", p) /\ UNCHANGED <<authVars, orderVars>>
    \/ \E u \in ReqUserIds \ {""} :
          Recommendations(u) /\ UNCHANGED <<authVars, orderVars>>
    \/ \E u \in ReqUserIds \ {""} :
          GetRecommendedProducts(u) /\ UNCHANGED <<authVars, orderVars>>

SpecCatalog == InitCatalog /\ [][NextCatalog]_vars

\* ------------------------------------------------- properties
\* The last request was a recommendation request.  No handler changes users
\* or products after answering, and every request overwrites response, so
\* while response is a recommendation answer the stored state is the state
\* that request read.
IsRecommendation(r) == r.op \in {"recommendations", "getRecommendedProducts"}

Returned == {response.recommendations[i] : i \in DOMAIN response.recommendations}

ResultLimit(r) == IF r.op = "recommendations" THEN RouteLimit ELSE FunctionLimit

\* C1: every product a recommendation request returns is neither in the
\* requesting user's likedProducts nor in that user's dislikedProducts.
C1_ReturnedNeitherLikedNorDisliked ==
    IsRecommendation(response) /\ response.userId \in DOMAIN users =>
        \A id \in Returned :
            /\ id \notin users[response.userId].likedProducts
            /\ id \notin users[response.userId].dislikedProducts

\* One score is less than another: never so when either is NaN.
ScoreLess(a, b) == ~a.nan /\ ~b.nan /\ a.val < b.val

\* C2: the returned sequence is in non-increasing order of the score the
\* request assigned (no product comes before one of greater score), and
\* returned products of equal score keep their catalog order.
C2_DescendingByScoreStable ==
    IsRecommendation(response) /\ response.scores # << >> =>
        \A i, j \in DOMAIN response.recommendations :
            i < j =>
                LET a == response.recommendations[i]
                    b == response.recommendations[j]
                IN /\ ~ScoreLess(response.scores[a], response.scores[b])
                   /\ (response.scores[a] = response.scores[b] => a < b)

\* The score the specification gives product id for the user.
WeightedScore(userId, id) ==
    products[id].sustainability_score
        + (IF products[id].category \in users[userId].preferences THEN 2 ELSE 0)
        + (IF id \in users[userId].likedProducts THEN 3 ELSE 0)
        - (IF id \in users[userId].dislikedProducts THEN 3 ELSE 0)

\* C3: the score assigned to a product is its sustainability_score, plus 2
\* if its category is preferred, plus 3 if it is liked, minus 3 if it is
\* disliked.
C3_ScoreIsWeightedSum ==
    IsRecommendation(response) /\ response.userId \in DOMAIN users =>
        \A id \in DOMAIN response.scores :
            response.scores[id] = Num(WeightedScore(response.userId, id))

\* C4: a recommendation request returns at most min(10, |catalog|) products.
C4_AtMostTenAndCatalog ==
    IsRecommendation(response) =>
        Len(response.recommendations) <= Min(10, Len(products))

\* C4 witness: getRecommendedProducts cut a longer candidate list to 10.
C4_Witness ==
    /\ response.op = "getRecommendedProducts"
    /\ Len(products) > 10
    /\ Len(response.recommendations) = 10

\* C5: no product identifier is in both likedProducts and dislikedProducts
\* of the same user.
C5_LikedDislikedDisjoint ==
    \A u \in DOMAIN users :
        users[u].likedProducts \cap users[u].dislikedProducts = {}

\* C6: a recommendation request for an identifier that no stored user has
\* ends in a not-found outcome without a result array, never in an
\* exception.
C6_UnknownUserNotFound ==
    IsRecommendation(response) /\ response.userId \notin DOMAIN users =>
        /\ ~response.threw
        /\ ~response.hasArray
        /\ (response.op = "recommendations" => response.status = 404)

\* C7: for an existing user and an empty catalog a recommendation request
\* succeeds with an empty result sequence.
C7_EmptyCatalogEmptyResult ==
    IsRecommendation(response) /\ response.userId \in DOMAIN users
        /\ products = << >> =>
        /\ ~response.threw
        /\ response.status \in {0, 200}
        /\ response.hasArray
        /\ response.recommendations = << >>

\* C8: for a user with no liked product, no disliked product and no
\* preferred category, a recommendation request returns the catalog's
\* products by descending sustainability_score, up to the result limit;
\* the result is non-empty when the catalog is.
C8_NoPreferencesPureScoreOrder ==
    IsRecommendation(response) /\ response.userId \in DOMAIN users
        /\ users[response.userId] = NewUser =>
        LET recs == response.recommendations
            score(id) == products[id].sustainability_score
        IN /\ Len(recs) = Min(ResultLimit(response), Len(products))
           /\ \A i, j \in DOMAIN recs :
                 i < j => recs[i] # recs[j] /\ score(recs[i]) >= score(recs[j])
           /\ \A id \in ProductIds \ Returned :
                 \A r \in Returned : score(id) <= score(r)

\* C9: after a successful like of a product by a stored user the product's
\* category is among the user's preferences, and no step removes a category
\* from a user's preferences.
C9_LikeAddsCategoryNeverPruned ==
    [][ /\ \A u \in DOMAIN users :
              users[u].preferences \subseteq users'[u].preferences
        /\ \A r \in LikeRequests :
              /\ UserLike(r[1], r[2]) \/ ProductLike(r[1], r[2])
              /\ response'.action = "liked"
              /\ r[1] \in DOMAIN users
              => products[r[2]].category \in users'[r[1]].preferences ]_vars

\* C10: a recommendation request, whatever it answers, changes no user's
\* likedProducts, dislikedProducts or preferences and no product; a stored
\* user's preference state changes only in a like or dislike request.
C10_RecommendationReadsOnly ==
    [][ /\ (IsRecommendation(response') => users' = users /\ products' = products)
        /\ \A u \in DOMAIN users :
              users'[u] # users[u] =>
                 response'.op \in {"user/like", "user/dislike", "product/like"} ]_vars

\* C10 witness: a recommendation request has answered with products for a
\* user who has liked and disliked products.
C10_Witness ==
    /\ IsRecommendation(response)
    /\ response.userId \in DOMAIN users
    /\ response.recommendations # << >>
    /\ users[response.userId].likedProducts # {}
    /\ users[response.userId].dislikedProducts # {}
    /\ users[response.userId].preferences # {}

\* C11: a like or dislike request (POST /api/user/like, /api/user/dislike,
\* /api/product/like) that names a user or a product that is not stored is
\* answered 404 and changes no stored user's likedProducts, dislikedProducts
\* or preferences.
C11_UnknownTargetNotFound ==
    [][ \A r \in LikeRequests :
           /\ r[1] # "" /\ r[2] # 0
           /\ (r[1] \notin DOMAIN users \/ r[2] \notin ProductIds)
           /\ \/ UserLike(r[1], r[2])
              \/ UserDislike(r[1], r[2])
              \/ ProductLike(r[1], r[2])
           => response'.status = 404 /\ users' = users ]_vars

\* ------------------------------------------------- orders and payments
\* Most orders the Order collection holds.
MaxOrders == 1

\* The answer of a handler of the login, registration, order and payment
\* routes: the HTTP status, the message of the JSON body, and the user the
\* token of the body is signed for ("" when the body carries no token).
Reply(op, status, message) ==
    [op |-> op, status |-> status, message |-> message, token |-> ""]

\* The catalog the order requests run against: two products with different
\* prices (price is a required path of ProductSchema).
PricedCatalog ==
    << [category |-> "A", sustainability_score |-> 2, price |-> 3],
       [category |-> "B", sustainability_score |-> 2, price |-> 5] >>

\* The carts a database can hold when an order request arrives: /api/cart/add
\* keeps one Cart document per user, with lines of quantity >= 1 for stored
\* products.
StoredCarts ==
    { << >>,
      ("u1" :> << [productId |-> 1, quantity |-> 2] >>),
      ("u1" :> << [productId |-> 1, quantity |-> 1], [productId |-> 2, quantity |-> 1] >>)
         @@ ("u2" :> << [productId |-> 2, quantity |-> 1] >>) }

\* The lines an order request can carry, and the items arrays built from
\* them: no line, one line, two lines.  A productId of 0 is a missing
\* productId and 3 names no stored product; a quantity or price of 0 is a
\* missing (falsy) one; the schema rejects a quantity below 1.
PlaceLines ==
    {[productId |-> 1, quantity |-> 1], [productId |-> 1, quantity |-> 2],
     [productId |-> 2, quantity |-> 1], [productId |-> 3, quantity |-> 1],
     [productId |-> 0, quantity |-> 1], [productId |-> 1, quantity |-> 0]}
CreateLines ==
    {[productId |-> 1, quantity |-> 1, price |-> 3],
     [productId |-> 1, quantity |-> 2, price |-> 4],
     [productId |-> 0, quantity |-> 1, price |-> 3],
     [productId |-> 1, quantity |-> 0, price |-> 3],
     [productId |-> 1, quantity |-> 1, price |-> 0],
     [productId |-> 1, quantity |-> -1, price |-> 3]}
ItemsOf(lines) == {<< >>} \cup {<<a>> : a \in lines} \cup {<<a, b>> : a, b \in lines}

\* What razorpay.orders.create(options) can come back with: the id of the
\* gateway order it created, or "" when the call rejects.
GatewayOutcomes == {"", "order_1"}

\* Order.save(): the document passes the validators of OrderSchema (userId,
\* the paths of every line and totalAmount required, quantity min 1).
OrderValidates(order) ==
    /\ order.userId # ""
    /\ \A i \in DOMAIN order.items : order.items[i].quantity >= 1

\* totalAmount after the loop over items, where amount[i] is what line i adds.
RECURSIVE LoopSum(_, _)
LoopSum(amount, n) == IF n = 0 THEN 0 ELSE LoopSum(amount, n - 1) + amount[n]

\* totalAmount with the quantity left out of each line.
PlaceTotalOfUnitPrices(items) ==
    LoopSum([i \in DOMAIN items |-> products[items[i].productId].price], Len(items))

\* POST /api/orders/place, totalAmount += product.price * item.quantity.
PlaceTotal(items) ==
    LoopSum([i \in DOMAIN items |->
                products[items[i].productId].price * items[i].quantity], Len(items))

\* POST /api/orders/place.  The loop answers 404 at the first line whose
\* product is not stored (findById of a missing productId finds nothing
\* either).  A line the schema rejects makes order.save() throw: 500.
OrdersPlace(userId, items) ==
    /\ IF userId = "" \/ Len(items) = 0
       THEN /\ response' = Reply("orders/place", 400, "User ID and items are required")
            /\ UNCHANGED orders
       ELSE IF \E i \in DOMAIN items : items[i].productId \notin ProductIds
       THEN LET first == CHOOSE i \in DOMAIN items :
                            /\ items[i].productId \notin ProductIds
                            /\ \A j \in 1..(i - 1) : items[j].productId \in ProductIds
            IN /\ response' = Reply("orders/place", 404,
                      "Product not found: " \o ToString(items[first].productId))
               /\ UNCHANGED orders
       ELSE LET order == [userId |-> userId,
                          items |-> [i \in DOMAIN items |->
                                       [productId |-> items[i].productId,
                                        quantity |-> items[i].quantity,
                                        price |-> products[items[i].productId].price]],
                          totalAmount |-> PlaceTotal(items),
                          paymentStatus |-> "Pending",
                          razorpayOrderId |-> ""]
            IN IF OrderValidates(order)
               THEN /\ orders' = Append(orders, order)
                    /\ response' = Reply("orders/place", 201, "Order placed successfully!")
               ELSE /\ response' = Reply("orders/place", 500, "Error placing order")
                    /\ UNCHANGED orders
    /\ UNCHANGED <<users, products, carts>>

\* Cart.findOneAndDelete({ userId })
CartFindOneAndDelete(userId) ==
    [u \in DOMAIN carts \ {userId} |-> carts[u]]

\* The handler as it would be with the cart cleared before the gateway is
\* asked and the order saved, instead of after.
OrderCreateClearingFirst(userId, items, currency, gateway) ==
    /\ IF userId = "" \/ Len(items) = 0 \/ currency = ""
       THEN /\ response' = Reply("order/create", 400,
                   "User ID, items array, and currency are required")
            /\ UNCHANGED <<orders, carts>>
       ELSE IF \E i \in DOMAIN items :
                  items[i].productId = 0 \/ items[i].quantity = 0 \/ items[i].price = 0
       THEN /\ response' = Reply("order/create", 400,
                   "Each item must have productId, quantity, and price")
            /\ UNCHANGED <<orders, carts>>
       ELSE LET newOrder == [userId |-> userId,
                             items |-> items,
                             totalAmount |->
                                 LoopSum([i \in DOMAIN items |->
                                            items[i].quantity * items[i].price],
                                         Len(items)),
                             paymentStatus |-> "Pending",
                             razorpayOrderId |-> gateway]
            IN /\ carts' = CartFindOneAndDelete(userId)
               /\ IF gateway = "" \/ ~OrderValidates(newOrder)
                  THEN /\ response' = Reply("order/create", 500, "Error creating order")
                       /\ UNCHANGED orders
                  ELSE /\ orders' = Append(orders, newOrder)
                       /\ response' = Reply("order/create", 201,
                              "Order created and cart cleared successfully")
    /\ UNCHANGED <<users, products>>

\* POST /api/order/create.  The lines and their prices are the request's;
\* razorpayOrder is what the gateway answered (gateway); newOrder.save()
\* throws on a line the schema rejects; the cart is deleted after the save.
OrderCreate(userId, items, currency, gateway) ==
    /\ IF userId = "" \/ Len(items) = 0 \/ currency = ""
       THEN /\ response' = Reply("order/create", 400,
                   "User ID, items array, and currency are required")
            /\ UNCHANGED <<orders, carts>>
       ELSE IF \E i \in DOMAIN items :
                  items[i].productId = 0 \/ items[i].quantity = 0 \/ items[i].price = 0
       THEN /\ response' = Reply("order/create", 400,
                   "Each item must have productId, quantity, and price")
            /\ UNCHANGED <<orders, carts>>
       ELSE LET totalAmount ==
                    LoopSum([i \in DOMAIN items |->
                                items[i].quantity * items[i].price], Len(items))
                newOrder == [userId |-> userId,
                             items |-> items,
                             totalAmount |-> totalAmount,
                             paymentStatus |-> "Pending",
                             razorpayOrderId |-> gateway]
            IN IF gateway = "" \/ ~OrderValidates(newOrder)
               THEN /\ response' = Reply("order/create", 500, "Error creating order")
                    /\ UNCHANGED <<orders, carts>>
               ELSE /\ orders' = Append(orders, newOrder)
                    /\ carts' = CartFindOneAndDelete(userId)
                    /\ response' = Reply("order/create", 201,
                           "Order created and cart cleared successfully")
    /\ UNCHANGED <<users, products>>

\* The names bound in the module scope of the first variant (its top-level
\* const declarations, lines 2-154 and 1161).
ModuleScope ==
    {"express", "mongoose", "bcrypt", "jwt", "cors", "morgan", "nodemailer",
     "rateLimit", "Razorpay", "crypto", "tf", "app", "authLimiter", "razorpay",
     "UserSchema", "User", "ProfileSchema", "Profile", "ProductSchema",
     "Product", "CartSchema", "Cart", "OrderSchema", "Order", "FeedbackSchema",
     "Feedback", "OTPSchema", "OTP", "transporter", "loginLimiter", "PORT"}

\* process.env.RAZORPAY_KEY_SECRET, the key secret the gateway client is
\* constructed with.
KeySecret == "key_secret"

\* crypto.createHmac("sha256", key).update(body).digest("hex"): a digest
\* that stands for its key and body, different for different ones.
Hmac(key, body) == "hmac(" \o key \o "," \o body \o ")"

\* POST /api/payments/verify.  The handler names the key as the bare
\* identifier RAZORPAY_KEY_SECRET; evaluating an identifier that nothing
\* binds throws a ReferenceError, which the catch answers with 500.
PaymentsVerify(orderId, paymentId, signature) ==
    /\ IF orderId = "" \/ paymentId = "" \/ signature = ""
       THEN response' = Reply("payments/verify", 400,
                              "Missing orderId, paymentId, or signature.")
       ELSE IF "RAZORPAY_KEY_SECRET" \notin ModuleScope
       THEN response' = Reply("payments/verify", 500,
                              "Server error during payment verification")
       ELSE LET body == orderId \o "|" \o paymentId
                expectedSignature == Hmac(KeySecret, body)
            IN IF expectedSignature = signature
               THEN response' = Reply("payments/verify", 200,
                                      "Payment verified successfully")
               ELSE response' = Reply("payments/verify", 400,
                                      "Invalid payment signature")
    /\ UNCHANGED <<users, products, orders, carts>>

\* The requests of /api/payments/verify: identifiers present or missing, and
\* as signature nothing, the digest of either body under the gateway key
\* secret, or a digest under another key.
VerifyOrderIds == {"", "order_1", "order_2"}
VerifyPaymentIds == {"", "pay_1"}
VerifySignatures ==
    {"", Hmac(KeySecret, "order_1|pay_1"), Hmac(KeySecret, "order_2|pay_1"),
     Hmac("another_key", "order_1|pay_1")}

\* The requests of /api/order/create and of /api/orders/place (which never
\* looks the user up).
CreateRequests ==
    ReqUserIds \X ItemsOf(CreateLines) \X {"", "INR"} \X GatewayOutcomes
PlaceRequests == {"", "u1"} \X ItemsOf(PlaceLines)

\* A database holding two users, the priced catalog and stored carts.
InitOrders ==
    /\ users = ("u1" :> NewUser) @@ ("u2" :> NewUser)
    /\ products = PricedCatalog
    /\ carts \in StoredCarts
    /\ orders = << >>
    /\ response = Reply("none", 0, "")
    /\ NoAuth

NextOrders ==
    \/ \E r \in PlaceRequests :
          /\ Len(orders) < MaxOrders
          /\ OrdersPlace(r[1], r[2])
          /\ UNCHANGED authVars
    \/ \E r \in CreateRequests :
          /\ Len(orders) < MaxOrders
          /\ OrderCreate(r[1], r[2], r[3], r[4])
          /\ UNCHANGED authVars
    \/ \E o \in VerifyOrderIds, p \in VerifyPaymentIds, g \in VerifySignatures :
          PaymentsVerify(o, p, g) /\ UNCHANGED authVars

SpecOrders == InitOrders /\ [][NextOrders]_vars

\* C12: POST /api/payments/verify answers 200 'Payment verified
\* successfully' exactly when orderId, paymentId and signature are all
\* present and signature is the HMAC-SHA256 of 'orderId|paymentId' under the
\* gateway key secret; a present but different signature is answered 400
\* 'Invalid payment signature', and a missing field is answered 400.
C12_VerifiedIffSignatureMatches ==
    [][ \A o \in VerifyOrderIds, p \in VerifyPaymentIds, g \in VerifySignatures :
           PaymentsVerify(o, p, g) =>
              LET present == o # "" /\ p # "" /\ g # ""
                  matches == g = Hmac(KeySecret, o \o "|" \o p)
              IN /\ (response'.status = 200 /\ response'.message = "Payment verified successfully")
                      <=> (present /\ matches)
                 /\ (present /\ ~matches =>
                        response'.status = 400 /\ response'.message = "Invalid payment signature")
                 /\ (~present => response'.status = 400) ]_vars

\* The last document of the Order collection.
LastOrder(os) == os[Len(os)]

\* C17: POST /api/order/create deletes the user's cart only after an Order
\* with paymentStatus 'Pending' and the gateway order id has been saved; when
\* the request validation fails or the gateway order creation fails, no
\* Order is saved and no cart changes.  As steps: a request of the route
\* that changes orders or carts passed the validation and got a gateway
\* order; and if it changed carts, it appended such an Order for its user
\* and deleted the cart of that user and no other.
C17_CartDeletedOnlyAfterOrderSaved ==
    [][ response'.op = "order/create" /\ (orders' # orders \/ carts' # carts) =>
          \A r \in CreateRequests :
             OrderCreate(r[1], r[2], r[3], r[4]) =>
                /\ r[1] # "" /\ r[2] # << >> /\ r[3] # "" /\ r[4] # ""
                /\ \A i \in DOMAIN r[2] :
                      r[2][i].productId # 0 /\ r[2][i].quantity # 0
                         /\ r[2][i].price # 0
                /\ carts' # carts =>
                      /\ Len(orders') = Len(orders) + 1
                      /\ SubSeq(orders', 1, Len(orders)) = orders
                      /\ LastOrder(orders').userId = r[1]
                      /\ LastOrder(orders').paymentStatus = "Pending"
                      /\ LastOrder(orders').razorpayOrderId = r[4]
                      /\ carts' = [u \in DOMAIN carts \ {r[1]} |-> carts[u]] ]_vars

\* C17 witness: an order of u1 with a gateway order id has been saved and
\* u1's cart, stored together with u2's, is gone.
C17_Witness ==
    /\ response.op = "order/create" /\ response.status = 201
    /\ orders # << >>
    /\ LastOrder(orders).userId = "u1"
    /\ LastOrder(orders).razorpayOrderId # ""
    /\ DOMAIN carts = {"u2"}

\* The sum of f over the positions 1..n, added from the last to the first.
RECURSIVE SumFrom(_, _, _)
SumFrom(f, i, n) == IF i > n THEN 0 ELSE f[i] + SumFrom(f, i + 1, n)

\* C18: POST /api/orders/place persists no Order when userId is missing,
\* items is empty or a line references a product that does not exist (404,
\* naming the first such line); every Order it persists has paymentStatus
\* 'Pending', one line per request line priced at the catalog's
\* product.price, and totalAmount equal to the sum over the lines of catalog
\* price times quantity.
C18_PlacedOrderPricedFromCatalog ==
    [][ response'.op = "orders/place" =>
          \A r \in PlaceRequests :
             OrdersPlace(r[1], r[2]) =>
                LET items == r[2]
                    missing == {i \in DOMAIN items : items[i].productId \notin ProductIds}
                IN /\ r[1] = "" \/ items = << >> \/ missing # {} => orders' = orders
                   /\ r[1] # "" /\ missing # {} =>
                         /\ response'.status = 404
                         /\ \E i \in missing :
                               /\ \A j \in missing : i <= j
                               /\ response'.message =
                                     "Product not found: " \o ToString(items[i].productId)
                   /\ orders' # orders =>
                         /\ Len(orders') = Len(orders) + 1
                         /\ SubSeq(orders', 1, Len(orders)) = orders
                         /\ LastOrder(orders').paymentStatus = "Pending"
                         /\ Len(LastOrder(orders').items) = Len(items)
                         /\ \A i \in DOMAIN items :
                               /\ LastOrder(orders').items[i].productId = items[i].productId
                               /\ LastOrder(orders').items[i].quantity = items[i].quantity
                               /\ LastOrder(orders').items[i].price =
                                     products[items[i].productId].price
                         /\ LastOrder(orders').totalAmount =
                               SumFrom([i \in DOMAIN items |->
                                          products[items[i].productId].price
                                             * items[i].quantity], 1, Len(items)) ]_vars

\* C18 witness: an order of two lines for different products has been
\* placed, one of them with a quantity above 1.
C18_Witness ==
    /\ response.op = "orders/place" /\ response.status = 201
    /\ orders # << >>
    /\ Len(LastOrder(orders).items) = 2
    /\ LastOrder(orders).items[1].productId # LastOrder(orders).items[2].productId
    /\ LastOrder(orders).items[1].quantity = 2
    /\ LastOrder(orders).totalAmount = 11

\* ------------------------------------------------- login and registration
\* Most records the OTP collection holds, and how often the clock advances.
MaxOtps == 2
MaxTicks == 2

\* An OTP is expired for the handlers once it is older than this many
\* milliseconds (lines 241, 386); the TTL index of OTPSchema removes a record
\* this many seconds after createdAt (line 139).
OtpLifetimeMs == 300000
OtpTtlSeconds == 300

\* The clock advances by one lifetime at a time, so a stored record is met at
\* the ages 0, exactly one lifetime, and more.
Tick == OtpLifetimeMs

\* The email addresses of requests: the two addresses the registration names
\* at lines 364-365 ("" is a missing email).  The second has an account from
\* the start.
TypoEmail == "nikth20072002@gmail.com"
Email == "nikith20072002@gmail.com"
ReqEmails == {"", TypoEmail, Email}

\* What Math.floor(100000 + Math.random() * 900000).toString() can give, and
\* the otp a request can carry ("" when missing).
OtpCodes == {"111111", "222222"}
ReqOtps == {""} \cup OtpCodes

\* bcrypt.hash(password, 10) and bcrypt.compare(password, hash).
BcryptHash(password) == "bcrypt(" \o password \o ")"
BcryptCompare(password, hash) == hash = BcryptHash(password)

\* jwt.sign({ id: user._id }, ...): the token stands for the user it names.
JwtSign(userId) == userId

\* The records of the OTP collection a filter { email, otp } or { email }
\* matches, by position.
MatchEmailOtp(email, otp) ==
    {i \in DOMAIN otps : otps[i].email = email /\ otps[i].otp = otp}
MatchEmail(email) == {i \in DOMAIN otps : otps[i].email = email}

\* What findOne or deleteOne can pick among the matching records: the
\* database does not specify which.  0 stands for null (no record matches).
PickOne(matching) == IF matching = {} THEN {0} ELSE matching

\* The collection without the record at position i (unchanged for i = 0).
DeleteAt(records, i) ==
    IF i = 0 THEN records
    ELSE SubSeq(records, 1, i - 1) \o SubSeq(records, i + 1, Len(records))

\* Date.now() > otpRecord.createdAt.getTime() + 300000
Expired(otpRecord) == now > otpRecord.createdAt + OtpLifetimeMs

\* POST /api/auth/login (first variant).  otp is the code drawn, mailSent
\* whether transporter.sendMail resolved (a rejection is caught: 500, with
\* the record already created).
Login(email, password, otp, mailSent) ==
    /\ IF email \notin DOMAIN accounts
          \/ ~BcryptCompare(password, accounts[email].password)
       THEN /\ response' = Reply("login", 401, "Invalid credentials")
            /\ UNCHANGED otps
       ELSE /\ otps' = Append(otps, [email |-> email, otp |-> otp, createdAt |-> now])
            /\ IF mailSent
               THEN response' =
                      [Reply("login", 200,
                          "OTP sent to your email. Please verify to complete login.")
                         EXCEPT !.token = JwtSign(email)]
               ELSE response' = Reply("login", 500, "Error during login")
    /\ UNCHANGED <<accounts, profiles, now, users>>

\* POST /api/auth/verify-login-otp.  The record is deleted before the user
\* is looked up.
VerifyLoginOtp(email, otp) ==
    /\ IF email = "" \/ otp = ""
       THEN /\ response' = Reply("verify-login-otp", 400, "Email and OTP are required")
            /\ UNCHANGED otps
       ELSE \E found \in PickOne(MatchEmailOtp(email, otp)) :
              IF found = 0
              THEN /\ response' = Reply("verify-login-otp", 400, "Invalid OTP")
                   /\ UNCHANGED otps
              ELSE IF Expired(otps[found])
              THEN /\ response' = Reply("verify-login-otp", 400,
                          "OTP has expired. Please request a new OTP.")
                   /\ UNCHANGED otps
              ELSE \E deleted \in PickOne(MatchEmailOtp(email, otp)) :
                     /\ otps' = DeleteAt(otps, deleted)
                     /\ IF email \notin DOMAIN accounts
                        THEN response' = Reply("verify-login-otp", 404, "User not found")
                        ELSE response' =
                               [Reply("verify-login-otp", 200, "Login successful!")
                                  EXCEPT !.token = JwtSign(email)]
    /\ UNCHANGED <<accounts, profiles, now, users>>

\* POST /api/auth/register/send-otp: deleteOne({ email }), then a new
\* record, which the handler reads back before it answers.
RegisterSendOtp(email, otp) ==
    /\ IF email = ""
       THEN /\ response' = Reply("register/send-otp", 400, "Email is required")
            /\ UNCHANGED otps
       ELSE \E deleted \in PickOne(MatchEmail(email)) :
              /\ otps' = Append(DeleteAt(otps, deleted),
                                [email |-> email, otp |-> otp, createdAt |-> now])
              /\ response' = Reply("register/send-otp", 200, "OTP sent successfully")
    /\ UNCHANGED <<accounts, profiles, now, users>>

\* POST /api/auth/register/verify-otp.  fields says username, password,
\* firstName, lastName and phone are all present.  The pre-save hook of
\* UserSchema hashes the password; User and Profile are saved in one
\* transaction; the new document has the preference arrays at their default.
RegisterVerifyOtp(email, otp, username, password, fields) ==
    /\ IF email = "" \/ otp = ""
       THEN /\ response' = Reply("register/verify-otp", 400, "Email and OTP are required")
            /\ UNCHANGED <<otps, accounts, profiles, users>>
       ELSE \E first \in PickOne(MatchEmail(email)) :
            \E otpRecord \in (IF first = 0 /\ email = TypoEmail
                              THEN PickOne(MatchEmail(Email))
                              ELSE {first}) :
              IF otpRecord = 0
              THEN /\ response' = Reply("register/verify-otp", 400,
                          "No OTP found for this email")
                   /\ UNCHANGED <<otps, accounts, profiles, users>>
              ELSE IF otps[otpRecord].otp # otp
              THEN /\ response' = Reply("register/verify-otp", 400, "Invalid OTP")
                   /\ UNCHANGED <<otps, accounts, profiles, users>>
              ELSE IF now - otps[otpRecord].createdAt > OtpLifetimeMs
              THEN /\ otps' = DeleteAt(otps, otpRecord)
                   /\ response' = Reply("register/verify-otp", 400, "OTP has expired")
                   /\ UNCHANGED <<accounts, profiles, users>>
              ELSE IF ~fields
              THEN /\ response' = Reply("register/verify-otp", 400,
                          "All registration fields are required")
                   /\ UNCHANGED <<otps, accounts, profiles, users>>
              ELSE IF \E e \in DOMAIN accounts :
                         e = email \/ accounts[e].username = username
              THEN /\ response' = Reply("register/verify-otp", 409,
                          "User with this email or username already exists")
                   /\ UNCHANGED <<otps, accounts, profiles, users>>
              ELSE /\ accounts' = (email :> [username |-> username,
                                             password |-> BcryptHash(password)])
                                     @@ accounts
                   /\ users' = (email :> NewUser) @@ users
                   /\ profiles' = profiles \cup {email}
                   /\ otps' = DeleteAt(otps, otpRecord)
                   /\ response' = [Reply("register/verify-otp", 201,
                                      "User registered successfully")
                                     EXCEPT !.token = JwtSign(email)]
    /\ UNCHANGED now

\* Time passes.
ClockTick ==
    /\ now' = now + Tick
    /\ UNCHANGED <<accounts, profiles, otps, users, response>>

\* The TTL index on createdAt (expires: 300): the database removes a record
\* at some time after createdAt + 300 s.
TtlExpire ==
    /\ \E i \in DOMAIN otps :
          /\ now >= otps[i].createdAt + OtpTtlSeconds * 1000
          /\ otps' = DeleteAt(otps, i)
    /\ UNCHANGED <<accounts, profiles, now, users, response>>

\* The requests of the four routes.
LoginRequests == (ReqEmails \ {""}) \X {"secret", "wrong"} \X OtpCodes \X BOOLEAN
OtpRequests == ReqEmails \X ReqOtps
SendRequests == ReqEmails \X OtpCodes
RegisterRequests == ReqEmails \X ReqOtps \X {"nikith", "nikth"} \X {"secret"} \X BOOLEAN

\* A database holding one registered user with a profile.
InitAuth ==
    /\ accounts = (Email :> [username |-> "nikith", password |-> BcryptHash("secret")])
    /\ users = (Email :> NewUser)
    /\ profiles = {Email}
    /\ otps = << >>
    /\ now = 0
    /\ products = << >>
    /\ response = Reply("none", 0, "")
    /\ NoOrders

NextAuth ==
    \/ \E r \in LoginRequests :
          /\ Login(r[1], r[2], r[3], r[4])
          /\ Len(otps') <= MaxOtps
          /\ UNCHANGED <<products, orderVars>>
    \/ \E r \in OtpRequests :
          VerifyLoginOtp(r[1], r[2]) /\ UNCHANGED <<products, orderVars>>
    \/ \E r \in SendRequests :
          /\ RegisterSendOtp(r[1], r[2])
          /\ Len(otps') <= MaxOtps
          /\ UNCHANGED <<products, orderVars>>
    \/ \E r \in RegisterRequests :
          /\ RegisterVerifyOtp(r[1], r[2], r[3], r[4], r[5])
          /\ UNCHANGED <<products, orderVars>>
    \/ now < MaxTicks * Tick /\ ClockTick /\ UNCHANGED <<products, orderVars>>
    \/ TtlExpire /\ UNCHANGED <<products, orderVars>>

SpecAuth == InitAuth /\ [][NextAuth]_vars

\* records without the one at position i.
Without(records, i) ==
    [k \in 1..(Len(records) - 1) |-> IF k < i THEN records[k] ELSE records[k + 1]]

\* The positions of the records for a pair after the step.
MatchEmailOtpAfter(email, otp) ==
    {i \in DOMAIN otps' : otps'[i].email = email /\ otps'[i].otp = otp}

\* C13: in the two-step login a token for a user is issued only after an OTP
\* sent to that user's email has been verified: no answer of
\* POST /api/auth/login carries a token, and an answer of
\* POST /api/auth/verify-login-otp that carries one is for the email of the
\* request, for which an unexpired record with the request's otp was stored
\* and one record of that pair has been deleted.
C13_TokenOnlyAfterOtpVerified ==
    [][ /\ \A r \in LoginRequests :
              Login(r[1], r[2], r[3], r[4]) => response'.token = ""
        /\ \A r \in OtpRequests :
              VerifyLoginOtp(r[1], r[2]) /\ response'.token # "" =>
                 /\ response'.token = JwtSign(r[1])
                 /\ \E i \in MatchEmailOtp(r[1], r[2]) : ~Expired(otps[i])
                 /\ \E i \in MatchEmailOtp(r[1], r[2]) : otps' = Without(otps, i) ]_vars

\* C14: a successful POST /api/auth/verify-login-otp deletes the matched
\* record, and a later verification with the same (email, otp) is rejected
\* as 'Invalid OTP' unless a new record with that pair is created in between
\* (so the successful one leaves no record with that pair); a verification
\* rejected with 400 deletes no record.
C14_VerifiedPairLeavesNoRecord ==
    [][ \A r \in OtpRequests :
           VerifyLoginOtp(r[1], r[2]) =>
              /\ response'.status = 200 =>
                    /\ \E i \in MatchEmailOtp(r[1], r[2]) : otps' = Without(otps, i)
                    /\ MatchEmailOtpAfter(r[1], r[2]) = {}
              /\ response'.status = 400 => otps' = otps ]_vars

\* C15: after a successful POST /api/auth/register/send-otp for an email
\* exactly one OTP record is stored for that email, the one just generated.
C15_OneRecordAfterSendOtp ==
    [][ \A r \in SendRequests :
           RegisterSendOtp(r[1], r[2]) /\ response'.status = 200 =>
              \E i \in DOMAIN otps' :
                 /\ otps'[i] = [email |-> r[1], otp |-> r[2], createdAt |-> now]
                 /\ \A j \in DOMAIN otps' : otps'[j].email = r[1] => j = i ]_vars

\* C16: POST /api/auth/register/verify-otp creates a User only if the
\* supplied otp is the otp of a stored record for the supplied email that is
\* at most 300000 ms old; with no record for the email, no record with the
\* otp, or only expired records with it, the answer is 400 and no User or
\* Profile is created; when the answer is that the OTP has expired, an
\* expired record with the otp has been deleted.
C16_UserOnlyWithFreshMatchingOtp ==
    [][ \A r \in RegisterRequests :
           RegisterVerifyOtp(r[1], r[2], r[3], r[4], r[5]) =>
              LET matching == MatchEmailOtp(r[1], r[2])
                  fresh == {i \in matching : now - otps[i].createdAt <= 300000}
              IN /\ accounts' # accounts \/ profiles' # profiles => fresh # {}
                 /\ fresh = {} =>
                       /\ response'.status = 400
                       /\ accounts' = accounts /\ profiles' = profiles
                 /\ response'.message = "OTP has expired" =>
                       \E i \in matching \ fresh : otps' = Without(otps, i) ]_vars

====
